---- MODULE Spec2Model ----
(***************************************************************************)
(* Inference pipeline of 03_website_streamlit.py: load_model,              *)
(* load_class_indices, preprocess_image, predict_image,                    *)
(* classification_page and main.                                           *)
(*                                                                         *)
(* Positions are 1-based here (TLA+ sequences); position i of the model    *)
(* is index i-1 of the Python code.                                        *)
(***************************************************************************)
EXTENDS Integers, Sequences, FiniteSets, TLC

(***************************************************************************)
(* float32 values.  model.predict returns a float32 array, and             *)
(* `conf * 100` is a float32 multiplication.  A non-negative float32 is    *)
(* <<e, m>> meaning m * 2^e with 2^23 <= m < 2^24, or F32Zero.  With this  *)
(* normal form the numeric order is the lexicographic order.               *)
(***************************************************************************)
Pow2(n) == 2 ^ n

F32Zero == <<-200, 0>>

F32Lt(a, b) == a[1] < b[1] \/ (a[1] = b[1] /\ a[2] < b[2])

F32Le(a, b) == a = b \/ F32Lt(a, b)

\* q / d rounded to the nearest integer, ties to even (IEEE 754 default).
RoundHalfEven(q, d) ==
    LET lo  == q \div d
        rem == q % d
    IN  IF 2 * rem < d THEN lo
        ELSE IF 2 * rem > d THEN lo + 1
        ELSE IF lo % 2 = 0 THEN lo ELSE lo + 1

\* float32(a * 100): 100 * m * 2^e = (25 * m) * 2^(e+2), and 25 * m, which has
\* 28 or 29 bits, is rounded to 24 bits.
F32Mul100(a) ==
    IF a[2] = 0 THEN F32Zero
    ELSE LET q == 25 * a[2]
             s == IF q < Pow2(28) THEN 4 ELSE 5
             r == RoundHalfEven(q, Pow2(s))
         IN  IF r = Pow2(24) THEN <<a[1] + 2 + s + 1, Pow2(23)>>
             ELSE <<a[1] + 2 + s, r>>

\* The float32 values nearest to 0.05, 0.10, 0.70, 1.0, the float32 nearest to
\* 0.45 and the next float32 above it, and 100.0.
F005   == <<-28, 13421773>>
F010   == <<-27, 13421773>>
F045   == <<-25, 15099494>>
F045up == <<-25, 15099495>>
F070   == <<-24, 11744051>>
F100   == <<-23, 8388608>>
Hundred == <<-17, 13107200>>

(***************************************************************************)
(* Class mappings.  A mapping is the ordered dict json.load returns (or    *)
(* the default dict literal): a sequence of <<key, display name>> pairs    *)
(* with distinct keys, in file (or declaration) order.                     *)
(***************************************************************************)
DefaultMapping ==
    << <<"tari_bedhaya", "Tari Bedhaya">>,
       <<"tari_dolalak", "Tari Dolalak">>,
       <<"tari_gambyong", "Tari Gambyong">>,
       <<"tari_golek", "Tari Golek">>,
       <<"tari_srimpi", "Tari Srimpi">> >>

\* Contents a class_indices.json can have: another order of the five classes,
\* a file of three classes, a file whose display names are not catalog names.
FileMapping5 ==
    << <<"a", "Tari Bedhaya">>, <<"b", "Tari Srimpi">>,
       <<"c", "Tari Gambyong">>, <<"d", "Tari Golek">>,
       <<"e", "Tari Dolalak">> >>

FileMapping3 ==
    << <<"x", "Tari Golek">>, <<"y", "Tari Bedhaya">>, <<"z", "Tari Srimpi">> >>

FileMappingOther ==
    << <<"k1", "Bedhaya">>, <<"k2", "Dolalak">>, <<"k3", "Gambyong">>,
       <<"k4", "Golek">>, <<"k5", "Srimpi">> >>

FileMappings == {FileMapping5, FileMapping3, FileMappingOther}

\* list(class_mapping.keys())
Keys(class_mapping) == [i \in 1..Len(class_mapping) |-> class_mapping[i][1]]

\* class_mapping[key]
Lookup(class_mapping, key) ==
    LET i == CHOOSE j \in 1..Len(class_mapping) : class_mapping[j][1] = key
    IN  class_mapping[i][2]

(***************************************************************************)
(* predict_image, after the forward pass.                                  *)
(***************************************************************************)
\* np.argmax: the first position holding the maximum.
ArgMax(v) ==
    CHOOSE i \in 1..Len(v) :
        /\ \A j \in 1..Len(v) : F32Le(v[j], v[i])
        /\ \A j \in 1..(i-1) : v[j] # v[i]

\* One step of an unstable descending sort: x goes before the entries whose
\* confidence equals its own.
InsertUnstable(l, x) ==
    LET before == {i \in 1..Len(l) : F32Lt(x.confidence, l[i].confidence)}
        k == IF before = {} THEN 0
             ELSE CHOOSE i \in before : \A j \in before : j <= i
    IN  SubSeq(l, 1, k) \o <<x>> \o SubSeq(l, k + 1, Len(l))

\* One step of sorted(..., reverse=True): x goes after every entry whose
\* confidence is >= its own, so equal confidences keep their order.
Insert(l, x) ==
    LET before == {i \in 1..Len(l) : F32Le(x.confidence, l[i].confidence)}
        k == IF before = {} THEN 0
             ELSE CHOOSE i \in before : \A j \in before : j <= i
    IN  SubSeq(l, 1, k) \o <<x>> \o SubSeq(l, k + 1, Len(l))

RECURSIVE SortedDesc(_)
SortedDesc(l) ==
    IF l = <<>> THEN <<>>
    ELSE Insert(SortedDesc(SubSeq(l, 1, Len(l) - 1)), l[Len(l)])

\* all_predictions before the sort; reached only when len(predictions) <= N.
AllPredictions(predictions, class_mapping) ==
    [i \in 1..Len(predictions) |->
        [class      |-> Lookup(class_mapping, Keys(class_mapping)[i]),
         pos        |-> i,
         confidence |-> F32Mul100(predictions[i])]]

\* Lines 203-224.  class_keys[idx] raises IndexError for idx past the mapping:
\* at line 208 for the argmax, else at line 214 in the loop.  The field pos
\* (the position in the raw vector) is bookkeeping of the model.
Rank(predictions, class_mapping) ==
    LET idx  == ArgMax(predictions)
        keys == Keys(class_mapping)
    IN  IF Len(predictions) = 0 THEN [kind |-> "raise", exc |-> "ValueError"]
        ELSE IF Len(predictions) > Len(keys)
        THEN [kind |-> "raise", exc |-> "IndexError"]
        ELSE [kind       |-> "return",
              class      |-> Lookup(class_mapping, keys[idx]),
              confidence |-> F32Mul100(predictions[idx]),
              all        |-> SortedDesc(AllPredictions(predictions, class_mapping))]

(***************************************************************************)
(* Images.  An uploaded file is zero-byte, malformed (no image header),    *)
(* truncated (a header, the pixel data cut short) or a good image.  A      *)
(* decoded image has a PIL mode, a size and, being of one colour here, one *)
(* value per band.                                                         *)
(***************************************************************************)
IMG_SIZE == 224

Bands(mode) ==
    CASE mode = "L"    -> 1
      [] mode = "P"    -> 1
      [] mode = "LA"   -> 2
      [] mode = "RGB"  -> 3
      [] mode = "RGBA" -> 4
      [] mode = "CMYK" -> 4

\* Image.open: reads the header only; no header, no image.
ImageOpen(file) ==
    IF file.data \in {"zero_byte", "malformed"}
    THEN [kind |-> "raise", exc |-> "UnidentifiedImageError"]
    ELSE [kind |-> "ok", image |-> file]

\* np.array(image.resize((IMG_SIZE, IMG_SIZE))).shape: a one-band image gives
\* a 2-dimensional array.
ArrayShape(image) ==
    IF Bands(image.mode) = 1 THEN <<IMG_SIZE, IMG_SIZE>>
    ELSE <<IMG_SIZE, IMG_SIZE, Bands(image.mode)>>

\* preprocess_image.  resize loads the pixel data, which raises OSError on a
\* truncated file.  A pixel value v / 255.0 is kept as <<v, 255>>.
PreprocessImage(image) ==
    IF image.data # "ok" THEN [kind |-> "raise", exc |-> "OSError"]
    ELSE LET shape == ArrayShape(image)
             last  == shape[Len(shape)]
         IN  IF last = 4 /\ Len(shape) < 3
             THEN [kind |-> "raise", exc |-> "IndexError"]
             ELSE LET cut == last = 4
                      shp == IF cut THEN <<shape[1], shape[2], 3>> ELSE shape
                      px  == IF cut THEN SubSeq(image.px, 1, 3) ELSE image.px
                  IN  [kind  |-> "ok",
                       shape |-> <<1>> \o shp,
                       px    |-> [i \in 1..Len(px) |-> <<px[i], 255>>]]

\* The input the artifact was built for: Keras raises ValueError on another.
InputShape == <<1, IMG_SIZE, IMG_SIZE, 3>>

\* predict_image: preprocess, forward pass (predictions is what model.predict
\* returns when it returns), ranking.  An exception of a step leaves the
\* function: there is no try in it.
PredictImage(model, image, predictions, class_mapping) ==
    LET pre == PreprocessImage(image)
    IN  IF pre.kind = "raise" THEN pre
        ELSE IF model = "None"
        THEN [kind |-> "raise", exc |-> "AttributeError"]
        ELSE IF pre.shape # InputShape
        THEN [kind |-> "raise", exc |-> "ValueError"]
        ELSE Rank(predictions, class_mapping)

(***************************************************************************)
(* Storage and the two cached loaders.                                     *)
(***************************************************************************)
\* load_model's body: only MODEL_PATH ('final_model.h5') is tried.
LoadModel(files) ==
    IF files.h5 = "ok"
    THEN [value |-> "model", msgs |-> {}]
    ELSE [value |-> "None",
          msgs  |-> {"error_loading_model", "info_model_file"}]

\* load_class_indices' body: any exception of open or json.load gives the
\* default mapping, and nothing is shown.
LoadClassIndices(files) ==
    IF files.mapping.state \in {"absent", "unparsable"}
    THEN [value |-> DefaultMapping, msgs |-> {}]
    ELSE [value |-> files.mapping.content, msgs |-> {}]

(***************************************************************************)
(* Pages.                                                                  *)
(***************************************************************************)
TARI_INFO ==
    {"Tari Bedhaya", "Tari Srimpi", "Tari Gambyong", "Tari Golek", "Tari Dolalak"}

Ninety  == <<-17, 11796480>>
Seventy == <<-17, 9175040>>

NoResult == [kind |-> "none"]

\* What a script run leaves on the page.  status "exception": an exception
\* left main, the script run ended there and Streamlit shows the traceback.
Page(shown, status, result, info, msgs) ==
    [shown |-> shown, status |-> status, result |-> result, info |-> info,
     msgs |-> msgs]

Interpretation(confidence) ==
    IF F32Le(Ninety, confidence) THEN "success_sangat_yakin"
    ELSE IF F32Le(Seventy, confidence) THEN "info_cukup_yakin"
    ELSE "warning_kurang_yakin"

\* classification_page.  file is the uploaded file, or NoFile.
NoFile == [data |-> "none"]

\* classification_page reading TARI_INFO[predicted_class] without the
\* `predicted_class in TARI_INFO` test: a label outside the catalog raises.
ClassificationPageUnguarded(model, class_mapping, file, predictions) ==
    IF file.data = "none"
    THEN Page("classification", "done", NoResult, FALSE, {"info_upload"})
    ELSE LET opened == ImageOpen(file)
         IN  IF opened.kind = "raise"
             THEN Page("classification", "exception", opened, FALSE, {})
             ELSE IF file.data # "ok"
             THEN Page("classification", "exception",
                       [kind |-> "raise", exc |-> "OSError"], FALSE, {})
             ELSE LET r == PredictImage(model, opened.image, predictions,
                                        class_mapping)
                  IN  IF r.kind = "raise"
                      THEN Page("classification", "exception", r, FALSE, {})
                      ELSE IF r.class \notin TARI_INFO
                      THEN Page("classification", "exception",
                                [kind |-> "raise", exc |-> "KeyError"],
                                FALSE, {})
                      ELSE Page("classification", "done", r, TRUE,
                                {Interpretation(r.confidence)})

\* The result stays on the page; info tells whether the catalog section
\* (lines 454-473) is shown.
ClassificationPage(model, class_mapping, file, predictions) ==
    IF file.data = "none"
    THEN Page("classification", "done", NoResult, FALSE, {"info_upload"})
    ELSE LET opened == ImageOpen(file)
         IN  IF opened.kind = "raise"
             THEN Page("classification", "exception", opened, FALSE, {})
             ELSE IF file.data # "ok"
             THEN Page("classification", "exception",
                       [kind |-> "raise", exc |-> "OSError"], FALSE, {})
             ELSE LET r == PredictImage(model, opened.image, predictions,
                                        class_mapping)
                  IN  IF r.kind = "raise"
                      THEN Page("classification", "exception", r, FALSE, {})
                      ELSE Page("classification", "done", r,
                                r.class \in TARI_INFO,
                                {Interpretation(r.confidence)})

Menus == {"beranda", "klasifikasi", "katalog", "tentang"}

\* The routing of main with the `model is not None` test of the klasifikasi
\* route left out.
RouteUnchecked(model, class_mapping, menu, file, predictions) ==
    LET side == IF model # "None" THEN {"sidebar_model_loaded"}
                ELSE {"sidebar_model_not_loaded"}
        page == IF menu = "klasifikasi"
                THEN ClassificationPage(model, class_mapping, file, predictions)
                ELSE Page(menu, "done", NoResult, FALSE, {})
    IN  [page EXCEPT !.msgs = @ \cup side]

\* main, after the two loads: the sidebar status and the route.
Route(model, class_mapping, menu, file, predictions) ==
    LET side == IF model # "None" THEN {"sidebar_model_loaded"}
                ELSE {"sidebar_model_not_loaded"}
        page == IF menu = "klasifikasi"
                THEN IF model # "None"
                     THEN ClassificationPage(model, class_mapping, file,
                                             predictions)
                     ELSE Page("unavailable", "done", NoResult, FALSE,
                               {"error_model_tidak_dapat_dimuat"})
                ELSE Page(menu, "done", NoResult, FALSE, {})
    IN  [page EXCEPT !.msgs = @ \cup side]

(***************************************************************************)
(* Bounds and input sets.                                                  *)
(***************************************************************************)
NumSessions == 2
MaxLen == 5

Sessions == 1..NumSessions

RawValues == {F32Zero, F005, F010, F045, F045up, F070, F100}

RECURSIVE SeqsUpTo(_, _)
SeqsUpTo(S, n) ==
    IF n = 0 THEN {<<>>}
    ELSE LET shorter == SeqsUpTo(S, n - 1)
         IN  shorter \cup {Append(q, x) : q \in {r \in shorter : Len(r) = n - 1}, x \in S}

Vectors == SeqsUpTo(RawValues, MaxLen) \ {<<>>}

ExampleVector == <<F005, F010, F070, F010, F005>>

\* Output vectors of the 5-class artifact used in the application runs.
AppVectors ==
    {ExampleVector,
     <<F045, F045up, F010, F32Zero, F32Zero>>,
     <<F100, F32Zero, F32Zero, F32Zero, F32Zero>>}

Mappings == {DefaultMapping} \cup FileMappings

File(data, mode, size, px) ==
    [data |-> data, mode |-> mode, size |-> size, px |-> px]

GoodRGB == File("ok", "RGB", <<300, 200>>, <<255, 0, 255>>)

AppFiles ==
    {File("zero_byte", "RGB", <<0, 0>>, <<>>),
     File("malformed", "RGB", <<0, 0>>, <<>>),
     File("truncated", "RGB", <<300, 200>>, <<255, 0, 255>>),
     GoodRGB,
     File("ok", "L", <<300, 200>>, <<255>>),
     File("ok", "RGBA", <<300, 200>>, <<255, 0, 255, 0>>)}

Modes == {"L", "P", "LA", "RGB", "RGBA", "CMYK"}

Images ==
    {File(d, m, <<w, h>>, px) :
        d \in {"ok", "truncated"}, m \in {"L"}, w \in {1, 300}, h \in {1},
        px \in {<<0>>, <<255>>}}
    \cup UNION {{File("ok", m, <<w, h>>, px) :
                    w \in {1, IMG_SIZE, 300}, h \in {1, IMG_SIZE, 300},
                    px \in [1..Bands(m) -> {0, 255}]} : m \in Modes}

FileStates ==
    [h5      : {"absent", "corrupt", "ok"},
     keras   : {"absent", "corrupt", "ok"},
     mapping : {[state |-> "absent", content |-> <<>>],
                [state |-> "unparsable", content |-> <<>>]}
               \cup {[state |-> "ok", content |-> m] : m \in FileMappings}]

\* The application runs have no final_model.keras: load_model never reads it.
AppFileStates == {f \in FileStates : f.keras = "absent"}

(***************************************************************************)
(* State.                                                                  *)
(***************************************************************************)
VARIABLES
    files,        \* final_model.h5, final_model.keras, class_indices.json
    modelCache,   \* st.cache_resource entry of load_model
    mapCache,     \* st.cache_data entry of load_class_indices
    modelLock,    \* the entry's compute lock: 0 (free) or the session holding it
    mapLock,
    modelLoads,   \* times load_model's body ran
    mapLoads,     \* times load_class_indices' body ran
    sess,         \* per session: the script run's position and locals
    response,     \* the page the last finished script run produced
    inImage,      \* inputs and output of the function under test
    inPredictions,
    inMapping,
    out

appVars == <<files, modelCache, mapCache, modelLock, mapLock, modelLoads,
             mapLoads, sess, response>>
funVars == <<inImage, inPredictions, inMapping, out>>
vars == <<appVars, funVars>>

\* A cache entry: whether a result is stored, the value, the elements shown
\* while it was computed, and obj, the object that was stored (objects are
\* numbered: 0 is no object, n the one made by the n-th run of the body,
\* NumSessions + s a copy made for session s).
Unset == [set |-> FALSE, value |-> "unset", msgs |-> {}, obj |-> 0]

\* A cache that finds nothing: every call is a miss.
CacheNeverHit(cache) == FALSE

\* A call of a cached function finds the entry once a result is stored.
CacheHit(cache) == cache.set

\* A cache that keeps values only: a None return is not stored.
StoredEntryUnlessNone(loaded) ==
    IF loaded.value = "None"
    THEN Unset
    ELSE [set |-> TRUE, value |-> loaded.value, msgs |-> loaded.msgs,
          obj |-> loaded.obj]

\* What the decorators store when the body returns: whatever it returned
\* (None included), with the elements it showed.
StoredEntry(loaded) ==
    [set |-> TRUE, value |-> loaded.value, msgs |-> loaded.msgs,
     obj |-> loaded.obj]

\* st.cache_resource (line 146) hands every caller the stored object itself.
ResourceHit(cache, s) == cache.obj

\* st.cache_data (line 157) stores the value serialised and hands every hit
\* a new object built from it: an equal copy, not the object the body made.
DataHit(cache, s) == NumSessions + s
NoLoad == [kind |-> "none"]
NoPage == Page("none", "none", NoResult, FALSE, {})

IdleSession ==
    [pc |-> "idle", model |-> "unset", class_mapping |-> <<>>,
     loaded |-> NoLoad, msgs |-> {}, model_obj |-> 0, mapping_obj |-> 0]

NoResponse ==
    [menu |-> "none", file |-> NoFile, model |-> "unset",
     class_mapping |-> <<>>, page |-> NoPage]

InitApp ==
    /\ files \in AppFileStates
    /\ modelCache = Unset
    /\ mapCache = Unset
    /\ modelLock = 0
    /\ mapLock = 0
    /\ modelLoads = 0
    /\ mapLoads = 0
    /\ sess = [s \in Sessions |-> IdleSession]
    /\ response = NoResponse

NoFun ==
    /\ inImage = NoFile
    /\ inPredictions = <<>>
    /\ inMapping = <<>>
    /\ out = NoResult

(***************************************************************************)
(* Application runs.  Each session runs main() top to bottom on every      *)
(* interaction, in its own thread.  A cached function looks its entry up;  *)
(* on a miss it takes the entry's lock, looks again, and only then runs    *)
(* the body and stores the result.  Elements the body showed (st.error,    *)
(* st.info) are stored with the value and shown again on a hit.            *)
(***************************************************************************)
\* A cache without the compute lock: every session that missed goes on.
LockIgnored(lock) == TRUE

\* Whether a session may take a cache entry's compute lock.
CanAcquire(lock) == lock = 0

\* A user interaction starts a script run (main, lines 617-621).
Rerun(s) ==
    /\ sess[s].pc = "idle"
    /\ sess' = [sess EXCEPT ![s].pc = "load_model"]
    /\ UNCHANGED <<files, modelCache, mapCache, modelLock, mapLock,
                   modelLoads, mapLoads, response, funVars>>

\* model = load_model(): the lookup.
ModelLookup(s) ==
    /\ sess[s].pc = "load_model"
    /\ sess' = [sess EXCEPT ![s] =
            IF CacheHit(modelCache)
            THEN [@ EXCEPT !.pc = "load_map", !.model = modelCache.value,
                           !.model_obj = ResourceHit(modelCache, s),
                           !.msgs = @ \cup modelCache.msgs]
            ELSE [@ EXCEPT !.pc = "model_wait"]]
    /\ UNCHANGED <<files, modelCache, mapCache, modelLock, mapLock,
                   modelLoads, mapLoads, response, funVars>>

\* The miss: take the lock and look again.
ModelAcquire(s) ==
    /\ sess[s].pc = "model_wait"
    /\ CanAcquire(modelLock)
    /\ IF CacheHit(modelCache)
       THEN /\ sess' = [sess EXCEPT ![s] =
                   [@ EXCEPT !.pc = "load_map", !.model = modelCache.value,
                             !.model_obj = ResourceHit(modelCache, s),
                             !.msgs = @ \cup modelCache.msgs]]
            /\ UNCHANGED modelLock
       ELSE /\ sess' = [sess EXCEPT ![s].pc = "model_compute"]
            /\ modelLock' = s
    /\ UNCHANGED <<files, modelCache, mapCache, mapLock, modelLoads, mapLoads,
                   response, funVars>>

\* The body of load_model runs, reading storage.  (modelLoads, which counts
\* the runs of the body, is capped at one run per session.)
ModelCompute(s) ==
    /\ sess[s].pc = "model_compute"
    /\ modelLoads < NumSessions
    /\ LET r == LoadModel(files)
       IN  sess' = [sess EXCEPT ![s] =
               [@ EXCEPT !.pc = "model_store",
                         !.loaded = [kind |-> "model", value |-> r.value,
                                     msgs |-> r.msgs,
                                     obj |-> IF r.value = "None" THEN 0
                                             ELSE modelLoads + 1],
                         !.msgs = @ \cup r.msgs]]
    /\ modelLoads' = modelLoads + 1
    /\ UNCHANGED <<files, modelCache, mapCache, modelLock, mapLock, mapLoads,
                   response, funVars>>

\* The result is stored, the lock released, and load_model returns.
ModelStore(s) ==
    /\ sess[s].pc = "model_store"
    /\ modelCache' = StoredEntry(sess[s].loaded)
    /\ modelLock' = 0
    /\ sess' = [sess EXCEPT ![s] =
            [@ EXCEPT !.pc = "load_map", !.model = sess[s].loaded.value,
                      !.model_obj = sess[s].loaded.obj,
                      !.loaded = NoLoad]]
    /\ UNCHANGED <<files, mapCache, mapLock, modelLoads, mapLoads, response, funVars>>

\* class_mapping = load_class_indices(): the same four steps.
MapLookup(s) ==
    /\ sess[s].pc = "load_map"
    /\ sess' = [sess EXCEPT ![s] =
            IF CacheHit(mapCache)
            THEN [@ EXCEPT !.pc = "route", !.class_mapping = mapCache.value,
                           !.mapping_obj = DataHit(mapCache, s),
                           !.msgs = @ \cup mapCache.msgs]
            ELSE [@ EXCEPT !.pc = "map_wait"]]
    /\ UNCHANGED <<files, modelCache, mapCache, modelLock, mapLock,
                   modelLoads, mapLoads, response, funVars>>

MapAcquire(s) ==
    /\ sess[s].pc = "map_wait"
    /\ CanAcquire(mapLock)
    /\ IF CacheHit(mapCache)
       THEN /\ sess' = [sess EXCEPT ![s] =
                   [@ EXCEPT !.pc = "route", !.class_mapping = mapCache.value,
                             !.mapping_obj = DataHit(mapCache, s),
                             !.msgs = @ \cup mapCache.msgs]]
            /\ UNCHANGED mapLock
       ELSE /\ sess' = [sess EXCEPT ![s].pc = "map_compute"]
            /\ mapLock' = s
    /\ UNCHANGED <<files, modelCache, mapCache, modelLock, modelLoads,
                   mapLoads, response, funVars>>

MapCompute(s) ==
    /\ sess[s].pc = "map_compute"
    /\ mapLoads < NumSessions
    /\ LET r == LoadClassIndices(files)
       IN  sess' = [sess EXCEPT ![s] =
               [@ EXCEPT !.pc = "map_store",
                         !.loaded = [kind |-> "mapping", value |-> r.value,
                                     msgs |-> r.msgs, obj |-> mapLoads + 1],
                         !.msgs = @ \cup r.msgs]]
    /\ mapLoads' = mapLoads + 1
    /\ UNCHANGED <<files, modelCache, mapCache, modelLock, mapLock, modelLoads,
                   response, funVars>>

MapStore(s) ==
    /\ sess[s].pc = "map_store"
    /\ mapCache' = StoredEntry(sess[s].loaded)
    /\ mapLock' = 0
    /\ sess' = [sess EXCEPT ![s] =
            [@ EXCEPT !.pc = "route", !.class_mapping = sess[s].loaded.value,
                      !.mapping_obj = sess[s].loaded.obj,
                      !.loaded = NoLoad]]
    /\ UNCHANGED <<files, modelCache, modelLock, modelLoads, mapLoads,
                   response, funVars>>

\* The rest of main: the menu the user chose, the file in the uploader (which
\* only the klasifikasi page has) and what the forward pass returns.  The
\* page goes to the browser and the run's locals are gone.
Render(s) ==
    /\ sess[s].pc = "route"
    /\ \E menu \in Menus, file \in AppFiles \cup {NoFile},
          predictions \in AppVectors :
        /\ menu # "klasifikasi" => file = NoFile
        /\ file.data # "ok" => predictions = ExampleVector
        /\ LET page == Route(sess[s].model, sess[s].class_mapping, menu, file,
                             predictions)
           IN  response' =
                   [menu |-> menu, file |-> file,
                    model |-> sess[s].model,
                    class_mapping |-> sess[s].class_mapping,
                    page |-> [page EXCEPT !.msgs = @ \cup sess[s].msgs]]
    /\ sess' = [sess EXCEPT ![s] = IdleSession]
    /\ UNCHANGED <<files, modelCache, mapCache, modelLock, mapLock,
                   modelLoads, mapLoads, funVars>>

\* Someone puts, replaces or removes one of the files beside the script.
PlaceFiles ==
    /\ files' \in {f \in AppFileStates \ {files} :
                      f.mapping = files.mapping \/ f.h5 = files.h5}
    /\ UNCHANGED <<modelCache, mapCache, modelLock, mapLock, modelLoads,
                   mapLoads, sess, response, funVars>>

Next ==
    \/ \E s \in Sessions :
        \/ Rerun(s)
        \/ ModelLookup(s)
        \/ ModelAcquire(s)
        \/ ModelCompute(s)
        \/ ModelStore(s)
        \/ MapLookup(s)
        \/ MapAcquire(s)
        \/ MapCompute(s)
        \/ MapStore(s)
        \/ Render(s)
    \/ PlaceFiles

Init == InitApp /\ NoFun

Spec == Init /\ [][Next]_vars

(***************************************************************************)
(* The functions on their own: each specification draws the arguments of   *)
(* one function and applies it once.                                       *)
(***************************************************************************)
QuietApp ==
    /\ modelCache = Unset
    /\ mapCache = Unset
    /\ modelLock = 0
    /\ mapLock = 0
    /\ modelLoads = 0
    /\ mapLoads = 0
    /\ sess = [s \in Sessions |-> IdleSession]
    /\ response = NoResponse

NoFiles ==
    [h5 |-> "absent", keras |-> "absent",
     mapping |-> [state |-> "absent", content |-> <<>>]]

\* predict_image: every vector with a good RGB image, and the images that
\* fail before the ranking with one vector.
RankInputs ==
    ({GoodRGB} \X Vectors \X Mappings)
    \cup ({File("ok", "L", <<300, 200>>, <<255>>),
           File("truncated", "RGB", <<300, 200>>, <<255, 0, 255>>)}
          \X {ExampleVector} \X Mappings)

InitRank ==
    /\ QuietApp
    /\ files = NoFiles
    /\ \E in \in RankInputs :
        /\ inImage = in[1]
        /\ inPredictions = in[2]
        /\ inMapping = in[3]
    /\ out = NoResult

RunPredictImage ==
    /\ out.kind = "none"
    /\ out' = PredictImage("model", inImage, inPredictions, inMapping)
    /\ UNCHANGED <<appVars, inImage, inPredictions, inMapping>>

SpecRank == InitRank /\ [][RunPredictImage]_vars

\* preprocess_image
InitPre ==
    /\ QuietApp
    /\ files = NoFiles
    /\ inImage \in Images
    /\ inPredictions = <<>>
    /\ inMapping = <<>>
    /\ out = NoResult

RunPreprocessImage ==
    /\ out.kind = "none"
    /\ out' = PreprocessImage(inImage)
    /\ UNCHANGED <<appVars, inImage, inPredictions, inMapping>>

SpecPre == InitPre /\ [][RunPreprocessImage]_vars

\* load_model and load_class_indices, uncached, on every state of the storage
InitLoad ==
    /\ QuietApp
    /\ files \in FileStates
    /\ NoFun

RunLoadModel ==
    /\ out.kind = "none"
    /\ out' = [kind |-> "load_model", ret |-> LoadModel(files)]
    /\ UNCHANGED <<appVars, inImage, inPredictions, inMapping>>

RunLoadClassIndices ==
    /\ out.kind = "none"
    /\ out' = [kind |-> "load_class_indices", ret |-> LoadClassIndices(files)]
    /\ UNCHANGED <<appVars, inImage, inPredictions, inMapping>>

NextLoad == RunLoadModel \/ RunLoadClassIndices

SpecLoad == InitLoad /\ [][NextLoad]_vars

(***************************************************************************)
(* Properties.                                                             *)
(***************************************************************************)
Returned == out.kind = "return"

Descending(l) ==
    \A i \in 1..Len(l), j \in 1..Len(l) :
        i < j => F32Le(l[j].confidence, l[i].confidence)

InPercentRange(l) ==
    \A i \in 1..Len(l) :
        F32Le(F32Zero, l[i].confidence) /\ F32Le(l[i].confidence, Hundred)

\* C1: whenever predict_image returns, the ranked list has exactly N entries
\* (N the size of the class mapping), every confidence lies in [0,100], and
\* the list is sorted non-increasing by confidence.
C1_RankedListOfN ==
    Returned =>
        /\ Len(out.all) = Len(inMapping)
        /\ InPercentRange(out.all)
        /\ Descending(out.all)

\* What holds of the ranked list for every vector: one entry per entry of the
\* raw vector, in [0,100], sorted non-increasing.
RankedListOfVector ==
    Returned =>
        /\ Len(out.all) = Len(inPredictions)
        /\ InPercentRange(out.all)
        /\ Descending(out.all)

\* The maximum of the raw vector, lowest position first, stated on its own.
IsFirstMax(v, i) ==
    /\ i \in 1..Len(v)
    /\ \A j \in 1..Len(v) : ~F32Lt(v[i], v[j])
    /\ \A j \in 1..Len(v) : j < i => F32Lt(v[j], v[i])

TopIsArgmax ==
    Returned =>
        /\ \E i \in 1..Len(inPredictions) :
              IsFirstMax(inPredictions, i) /\ out.class = inMapping[i][2]
        /\ out.confidence = out.all[1].confidence

Positions(l) == [i \in 1..Len(l) |-> l[i].pos]

\* C3: the ranked list is a stable descending sort on confidence: of two
\* classes with equal confidence the one at the lower position of the class
\* mapping comes first; the raw vector [0.05, 0.10, 0.70, 0.10, 0.05] ranks
\* the positions 2, 1, 3, 0, 4 (here 3, 2, 4, 1, 5).
C3_StableDescending ==
    Returned =>
        /\ Descending(out.all)
        /\ \A i \in 1..Len(out.all), j \in 1..Len(out.all) :
              (i < j /\ out.all[i].confidence = out.all[j].confidence)
                  => out.all[i].pos < out.all[j].pos
        /\ \A i \in 1..Len(out.all) :
              out.all[i].class = inMapping[out.all[i].pos][2]
        /\ inPredictions = ExampleVector
              => Positions(out.all) = <<3, 2, 4, 1, 5>>

\* C3's case: the example of the specification has been ranked, ties included.
C3_Witness ==
    /\ Returned
    /\ inPredictions = ExampleVector
    /\ inMapping = FileMapping5
    /\ [i \in 1..5 |-> out.all[i].class] =
          <<"Tari Gambyong", "Tari Srimpi", "Tari Golek", "Tari Bedhaya",
            "Tari Dolalak">>
    /\ out.all[2].confidence = out.all[3].confidence

PastModelLoad == {"load_map", "map_wait", "map_compute", "map_store", "route"}

\* C4: while load_model has produced no model, no classification request is
\* run (classification_page, and so predict_image, is never entered), and a
\* klasifikasi request gets the unavailable status instead.
C4_NoClassificationWithoutModel ==
    /\ response.page.shown = "classification" => response.model = "model"
    /\ (modelCache.set /\ modelCache.value = "None")
          => response.page.shown # "classification"
    /\ (response.menu = "klasifikasi" /\ response.model = "None")
          => /\ response.page.shown = "unavailable"
             /\ response.page.status = "done"
             /\ response.page.result.kind = "none"
             /\ "error_model_tidak_dapat_dimuat" \in response.page.msgs

\* C4's case: the load failed and a klasifikasi request has been answered.
C4_Witness ==
    /\ modelCache.set
    /\ modelCache.value = "None"
    /\ response.menu = "klasifikasi"
    /\ response.page.shown = "unavailable"

\* C5: sessions racing on a first call run the body of load_model, and of
\* load_class_indices, at most once; a session never gets a value from a
\* cache entry that is still being computed: what it holds is the stored
\* value, and an entry is stored only by the one session holding its lock.
C5_LoadedAtMostOnce ==
    /\ modelLoads <= 1
    /\ mapLoads <= 1
    /\ \A s \in Sessions :
          /\ sess[s].pc \in {"model_compute", "model_store"}
                => ~modelCache.set /\ modelLock = s
          /\ sess[s].pc \in {"map_compute", "map_store"}
                => ~mapCache.set /\ mapLock = s
          /\ sess[s].pc \in PastModelLoad
                => modelCache.set /\ sess[s].model = modelCache.value
          /\ sess[s].pc = "route"
                => mapCache.set /\ sess[s].class_mapping = mapCache.value

\* C5's case: two sessions missed the model cache together; one holds the
\* lock with the loaded model not yet stored, the other waits for it.
C5_Witness ==
    \E s \in Sessions, t \in Sessions :
        /\ s # t
        /\ sess[s].pc = "model_store"
        /\ sess[t].pc = "model_wait"
        /\ modelLoads = 1

\* C6: with class_indices.json absent or unparsable, load_class_indices
\* returns the built-in mapping of 5 entries, emits a non-fatal warning and
\* no error, and classification succeeds with that mapping.
C6_DefaultMappingWithWarning ==
    (out.kind = "load_class_indices"
        /\ files.mapping.state \in {"absent", "unparsable"}) =>
        /\ out.ret.value = DefaultMapping
        /\ Len(out.ret.value) = 5
        /\ \E m \in out.ret.msgs : m \in {"warning_default_mapping"}
        /\ \A m \in out.ret.msgs : m # "error"
        /\ \A v \in AppVectors :
              PredictImage("model", GoodRGB, v, out.ret.value).kind = "return"

\* The part of C6 that holds: the default mapping, silently.
DefaultMappingSilently ==
    (out.kind = "load_class_indices"
        /\ files.mapping.state \in {"absent", "unparsable"}) =>
        /\ out.ret.value = DefaultMapping
        /\ out.ret.msgs = {}
        /\ \A v \in AppVectors :
              PredictImage("model", GoodRGB, v, out.ret.value).kind = "return"

\* C7: when the forward pass errors (an output vector whose length differs
\* from the mapping's size included) or preprocessing failed, predict_image
\* returns a failure outcome with confidence 0 and an empty ranked list,
\* never a partially populated result.
C7_FailureOutcome ==
    (out.kind # "none"
        /\ \/ Len(inPredictions) # Len(inMapping)
           \/ PreprocessImage(inImage).kind = "raise"
           \/ PreprocessImage(inImage).shape # InputShape) =>
        /\ Returned
        /\ out.confidence = F32Zero
        /\ out.all = <<>>

\* C8: with final_model.h5 absent and final_model.keras present, load_model
\* loads the model from the second format and reports which one it used.
C8_SecondaryFormat ==
    (out.kind = "load_model" /\ files.h5 = "absent" /\ files.keras = "ok") =>
        /\ out.ret.value = "model"
        /\ \E m \in out.ret.msgs : m \in {"loaded_from_keras"}

\* C9: for every colour mode preprocess_image accepts, the tensor has shape
\* (1, 224, 224, 3): one channel becomes 3 identical channels, 4 channels are
\* cut to the first 3.
C9_ThreeChannelTensor ==
    out.kind = "ok" =>
        /\ out.shape = <<1, 224, 224, 3>>
        /\ Bands(inImage.mode) = 1
              => out.px = [i \in 1..3 |-> <<inImage.px[1], 255>>]
        /\ Bands(inImage.mode) = 4
              => out.px = [i \in 1..3 |-> <<inImage.px[i], 255>>]

\* The part of C9 that holds: 3 and 4 channels give (1, 224, 224, 3), the
\* fourth channel cut off.
ThreeChannelTensorOfColour ==
    (out.kind = "ok" /\ Bands(inImage.mode) \in {3, 4}) =>
        /\ out.shape = <<1, 224, 224, 3>>
        /\ out.px = [i \in 1..3 |-> <<inImage.px[i], 255>>]

\* C10: a malformed, undecodable or zero-byte upload gives that request a
\* failure outcome with an empty ranked list; the request handler does not
\* crash.
C10_BadImageOutcome ==
    (response.menu = "klasifikasi" /\ response.model = "model"
        /\ response.file.data \in {"zero_byte", "malformed", "truncated"}) =>
        /\ response.page.status = "done"
        /\ response.page.result.kind = "return"
        /\ response.page.result.all = <<>>

\* What holds after any script run, an aborted one too: the session is idle
\* again and can run the script anew, and the caches are as they were.
StillServing ==
    [][\A s \in Sessions :
          (sess[s].pc = "route" /\ sess'[s].pc # "route")
              => /\ sess'[s] = IdleSession
                 /\ modelCache' = modelCache
                 /\ mapCache' = mapCache]_vars

\* C12: a top label without a record in TARI_INFO does not fail the
\* classification: the top label, its confidence and the whole ranked list
\* are produced and shown, and only the descriptive section is left out.
C12_CatalogMissKeepsResult ==
    (response.page.shown = "classification" /\ response.file.data = "ok"
        /\ Bands(response.file.mode) \in {3, 4}
        /\ Len(response.class_mapping) = 5
        /\ \A i \in 1..5 : response.class_mapping[i][2] \notin TARI_INFO) =>
        /\ response.page.status = "done"
        /\ response.page.result.kind = "return"
        /\ Len(response.page.result.all) = 5
        /\ \E i \in 1..5 :
              response.page.result.class = response.class_mapping[i][2]
        /\ response.page.result.confidence
              = response.page.result.all[1].confidence
        /\ ~response.page.info
        /\ \E m \in response.page.msgs :
              m \in {"success_sangat_yakin", "info_cukup_yakin",
                     "warning_kurang_yakin"}

\* C12's case: a mapping whose display names the catalog does not know has
\* been used, and the result is on the page without the catalog section.
C12_Witness ==
    /\ response.page.shown = "classification"
    /\ response.class_mapping = FileMappingOther
    /\ response.page.status = "done"
    /\ response.page.result.kind = "return"
    /\ response.page.result.class \notin TARI_INFO
    /\ ~response.page.info


\* A call of load_model has returned no model: a script run holds None, or
\* a page was already produced with it.
FailedLoadReturned ==
    \/ response.model = "None"
    \/ \E s \in Sessions :
          sess[s].pc \in PastModelLoad /\ sess[s].model = "None"

\* C13: a failed load is cached like a successful one.  Once load_model has
\* returned no model, the entry holds None; from then on the entry is never
\* replaced, the body never runs again (whatever files are put beside the
\* script), every call returns None, and no page is a classification.
C13_FailedLoadIsCached ==
    /\ [](FailedLoadReturned => modelCache.set /\ modelCache.value = "None")
    /\ [][(modelCache.set /\ modelCache.value = "None") =>
            /\ modelCache' = modelCache
            /\ modelLoads' = modelLoads
            /\ \A s \in Sessions :
                  sess'[s].pc \in PastModelLoad => sess'[s].model = "None"
            /\ response' # response =>
                  /\ response'.model = "None"
                  /\ response'.page.shown # "classification"
                  /\ response'.menu = "klasifikasi" =>
                        response'.page.shown = "unavailable"]_vars

\* C13's case: the load failed and a page was produced without a model; the
\* artifact is in place now, and a later call of load_model has still
\* returned None without the body running a second time.
C13_Witness ==
    /\ files.h5 = "ok"
    /\ modelLoads = 1
    /\ response.model = "None"
    /\ response.menu = "klasifikasi"
    /\ \E s \in Sessions : sess[s].pc = "load_map" /\ sess[s].model = "None"

\* C11 as stated: every later call returns the same cached instance, for
\* load_model and for load_class_indices alike.
C11_SameCachedInstance ==
    \A s \in Sessions :
        /\ (sess[s].pc \in PastModelLoad /\ modelCache.value = "model")
              => sess[s].model_obj = modelCache.obj
        /\ sess[s].pc = "route" => sess[s].mapping_obj = mapCache.obj

\* C11: after a successful load every call of load_model returns the one
\* object that was cached, and every call of load_class_indices returns a
\* mapping equal to the cached one; the body of neither runs again, so
\* storage is not read again, and no step changes a stored entry.
C11_CachedForProcessLifetime ==
    /\ [](\A s \in Sessions :
            /\ (sess[s].pc \in PastModelLoad /\ modelCache.value = "model")
                  => /\ sess[s].model = "model"
                     /\ sess[s].model_obj = modelCache.obj
            /\ (sess[s].pc = "route" /\ modelCache.value = "model")
                  => /\ mapCache.set
                     /\ sess[s].class_mapping = mapCache.value)
    /\ [][/\ (modelCache.set /\ modelCache.value = "model")
                => modelCache' = modelCache /\ modelLoads' = modelLoads
          /\ mapCache.set
                => mapCache' = mapCache /\ mapLoads' = mapLoads]_vars

\* C11's case: both entries are stored and the files they were read from
\* are gone; two script runs hold the same model object, so one of them got
\* it from the cache, and one holds a copy of the mapping made on a hit.
C11_Witness ==
    /\ modelCache.value = "model"
    /\ files.h5 = "absent"
    /\ files.mapping.state = "absent"
    /\ mapCache.set
    /\ mapCache.value # DefaultMapping
    /\ modelLoads = 1
    /\ mapLoads = 1
    /\ \E s \in Sessions, t \in Sessions :
          /\ s # t
          /\ sess[s].pc = "route"
          /\ sess[t].pc = "route"
          /\ sess[s].model_obj = modelCache.obj
          /\ sess[t].model_obj = modelCache.obj
          /\ sess[s].class_mapping = mapCache.value
          /\ sess[s].mapping_obj # mapCache.obj
====
